---- MODULE Spec2Model ----
(***************************************************************************)
(* Activity-Based Costing dashboard (src/v3.py): the script as a state     *)
(* machine.  One run of the script is one behaviour: the two uploaded      *)
(* tables are fixed by Init, and every section of the script is one        *)
(* action, taken in program order.                                         *)
(*                                                                         *)
(* Representation.                                                         *)
(*   name   a column name / driver name / activity name is a sequence of   *)
(*          atoms; the atom " " is one whitespace character, every other   *)
(*          atom is a run of non-whitespace characters.  "D " is           *)
(*          <<"D", " ">>.  f"{t}_Cost" is Append(t, "_Cost").              *)
(*   cell   [t |-> "num", v |-> q]   a number, q a rational <<n, d>>       *)
(*          [t |-> "nan"]            a missing value (NaN / NaT / None)    *)
(*          [t |-> "str", v |-> nm]  text, nm a name                       *)
(*          [t |-> "time", hour |-> h]     a timestamp                     *)
(*          [t |-> "timestr", hour |-> h]  text that parses as a timestamp *)
(*   frame  [columns |-> <<name, ...>>, rows |-> <<row, ...>>], a row a    *)
(*          sequence of cells, one per column; event_df also carries       *)
(*          numeric |-> <<BOOLEAN, ...>>, the dtype test of select_dtypes. *)
(* Floating point is modelled by exact rational arithmetic.                *)
(***************************************************************************)
EXTENDS Integers, Sequences, FiniteSets, TLC

VARIABLES pc, cost_df, event_df, driver_units, events_clean, costs_df,
          summary, viz_df, exception, displayed

vars == <<pc, cost_df, event_df, driver_units, events_clean, costs_df,
          summary, viz_df, exception, displayed>>

(***************************************************************************)
(* Bounds of the model                                                     *)
(***************************************************************************)
MaxFlights == 2
MaxActs == 2

(***************************************************************************)
(* Rational arithmetic (the model of float arithmetic)                     *)
(***************************************************************************)
RECURSIVE Gcd(_, _)
Gcd(a, b) == IF b = 0 THEN a ELSE Gcd(b, a % b)

Norm(n, d) == IF n = 0 THEN <<0, 1>> ELSE LET g == Gcd(n, d) IN <<n \div g, d \div g>>

Zero == <<0, 1>>

QAdd(x, y) == Norm(x[1] * y[2] + y[1] * x[2], x[2] * y[2])

QMul(x, y) == Norm(x[1] * y[1], x[2] * y[2])

\* x / y of Python numbers: a ZeroDivisionError when y is 0
Fault == <<0, 0>>

QDiv(x, y) == IF y[1] = 0 THEN Fault ELSE Norm(x[1] * y[2], x[2] * y[1])

Num(n) == [t |-> "num", v |-> <<n, 1>>]

NumQ(q) == [t |-> "num", v |-> q]

NaN == [t |-> "nan"]

Str(nm) == [t |-> "str", v |-> nm]

RECURSIVE SumQ(_)
SumQ(s) == IF s = <<>> THEN Zero ELSE QAdd(Head(s), SumQ(Tail(s)))

(***************************************************************************)
(* Strings                                                                 *)
(***************************************************************************)
RECURSIVE LStrip(_)
LStrip(s) == IF s = <<>> THEN s ELSE IF Head(s) = " " THEN LStrip(Tail(s)) ELSE s

RECURSIVE RStrip(_)
RStrip(s) ==
  IF s = <<>> THEN s
  ELSE IF s[Len(s)] = " " THEN RStrip(SubSeq(s, 1, Len(s) - 1)) ELSE s

\* str.strip()
Strip(s) == RStrip(LStrip(s))

\* str(x) of a cell value
ToStr(c) ==
  IF c.t = "str" THEN c.v
  ELSE IF c.t = "num" THEN <<ToString(c.v[1])>>
  ELSE IF c.t = "nan" THEN <<"nan">>
  ELSE <<ToString(c.hour)>>

\* pd.isna / pd.notna
IsNa(c) == c.t = "nan"

(***************************************************************************)
(* Frames                                                                  *)
(***************************************************************************)
Undefined == [undefined |-> TRUE]

Range(s) == {s[i] : i \in 1..Len(s)}

HasColumn(df, name) == \E i \in 1..Len(df.columns) : df.columns[i] = name

ColIndex(df, name) == CHOOSE i \in 1..Len(df.columns) : df.columns[i] = name

\* df[name] : the column as a sequence of cells
Column(df, name) == [r \in 1..Len(df.rows) |-> df.rows[r][ColIndex(df, name)]]

\* row[name] of a row of df
At(df, row, name) == row[ColIndex(df, name)]

\* df[name] = values : overwrite the column when it exists, else append it
SetColumn(df, name, values) ==
  IF HasColumn(df, name)
  THEN [df EXCEPT !.rows = [r \in 1..Len(df.rows) |->
                              [df.rows[r] EXCEPT ![ColIndex(df, name)] = values[r]]]]
  ELSE [df EXCEPT !.columns = Append(df.columns, name),
                  !.rows = [r \in 1..Len(df.rows) |-> Append(df.rows[r], values[r])]]

(***************************************************************************)
(* Inputs: the two sheets handed over by the loader (lines 33-40).         *)
(* The sheets follow the data model: activity names are unique and are not *)
(* the reserved names Flight and Total_Cost_Per_Flight, Type and           *)
(* Total_Cost cells are filled, the event sheet has an identifier column,  *)
(* a Departure Time column and non-blank headers, its last row is the      *)
(* Totals record, and the flight rows hold numbers in the driver columns.  *)
(* What varies: the columns of the cost pool; the Driver cell (missing,    *)
(* blank, with whitespace around it, unknown); the headers of the driver   *)
(* columns (whitespace, two headers equal after trimming), their dtype and *)
(* missing Totals cells; costs, types and consumption; the Departure Time  *)
(* cells; the numbers of activities and of flights, down to none.          *)
(***************************************************************************)
Activity == <<"Activity">>
Type == <<"Type">>
Total_Cost == <<"Total_Cost">>
Driver == <<"Driver">>
Flight == <<"Flight">>
DepartureTime == <<"Departure", " ", "Time">>
Total_Cost_Per_Flight == <<"Total_Cost_Per_Flight">>

\* the activity of the i-th cost-pool row (Activity is unique within the table)
ActivityName(i) == <<"Act" \o ToString(i)>>

\* the identifier of the i-th event row: text on odd rows, a number on even rows
FlightId(i) == IF i % 2 = 1 THEN Str(<<"TG" \o ToString(i)>>) ELSE Num(100 + i)

CostColumns == <<Activity, Type, Total_Cost, Driver>>

TypeNames == {<<"Direct">>, <<"Indirect">>}

\* driver names written in the cost-pool sheet, the missing cell included
DriverCells ==
  {NaN, Str(<<" ">>), Str(<<"D">>), Str(<<"D", " ">>), Str(<<" ", "D">>), Str(<<"P">>)}

\* a cost-pool sheet with the four required columns
CostFrame(n, types, costs, drivers) ==
  [columns |-> CostColumns,
   rows |-> [i \in 1..n |-> <<Str(ActivityName(i)), Str(types[i]), Num(costs[i]), drivers[i]>>]]

CostPools(typeSet, costSet, driverSet) ==
  UNION {{CostFrame(n, ty, co, dr) :
            ty \in [1..n -> typeSet], co \in [1..n -> costSet], dr \in [1..n -> driverSet]} :
         n \in 0..MaxActs}

\* the kinds of Departure Time cell met in the sheets, by row position
DepartureOf(i) ==
  IF i % 3 = 1 THEN [t |-> "time", hour |-> 6]
  ELSE IF i % 3 = 2 THEN Str(<<"n/a">>) ELSE NaN

\* an event sheet: identifier column, Departure Time, then the driver columns
\* `names` with dtypes `numeric`; the last row is the Totals record
EventFrame(idName, names, numeric, deps, flights, totals) ==
  [columns |-> <<idName, DepartureTime>> \o names,
   numeric |-> <<FALSE, FALSE>> \o numeric,
   rows |-> [i \in 1..Len(flights) |->
               <<FlightId(i), deps[i]>> \o [c \in 1..Len(names) |-> Num(flights[i][c])]]
            \o << <<Str(<<"Total">>), NaN>> \o totals >>]

\* headers of the driver columns of the event sheet: distinct names
ColumnNames == {<<"D">>, <<"D", " ">>}

Headers ==
  {<<>>} \cup {<<a>> : a \in ColumnNames}
         \cup {h \in ColumnNames \X ColumnNames : h[1] # h[2]}

\* event sheets over a set of headers: every choice of dtypes, of Totals
\* record and of `counts` flight rows
EventTables(headerSet, dtypeSet, totalRows, flightRows, counts) ==
  UNION {UNION {{EventFrame(Flight, h, nu, [i \in 1..n |-> DepartureOf(i)], fl, to) :
                   nu \in [1..Len(h) -> dtypeSet],
                   to \in totalRows[h],
                   fl \in [1..n -> flightRows[h]]} :
                n \in counts} :
         h \in headerSet}

\* Totals cells of the whitespace sheets: missing, zero, or the flights' sum
NameTotals == [h \in Headers |-> [1..Len(h) -> {NaN, Num(0), Num(MaxFlights)}]]

\* every flight of the whitespace sheets consumes one unit of every driver
NameFlights == [h \in Headers |-> {[c \in 1..Len(h) |-> 1]}]

\* cost pools whose first activity names its driver in every way met in the
\* sheets; the activities after it name the driver "D"
NamePools ==
  {CostFrame(n, [i \in 1..n |-> <<"Direct">>], [i \in 1..n |-> 2],
             [i \in 1..n |-> IF i = 1 THEN d ELSE Str(<<"D">>)]) :
     n \in 1..MaxActs, d \in DriverCells}

\* sheets whose driver names and column headers differ in whitespace, in
\* dtype and in missing Totals values
NameInputs ==
  {[cost |-> c, event |-> e] :
     c \in NamePools,
     e \in EventTables(Headers, BOOLEAN, NameTotals, NameFlights, 0..MaxFlights)}

\* the headers, the Totals record and the flight rows of the exact-name sheets
CostHeaders == {<<<<"D">>, <<"P">>>>}

CostTotals == [h \in CostHeaders |-> {<<Num(2), Num(1)>>}]

CostFlights == [h \in CostHeaders |-> {<<d, 1>> : d \in {1, 2}}]

\* sheets with exact driver names: costs, types and consumption vary, the
\* numbers of activities and of flights go down to none
CostInputs ==
  {[cost |-> c, event |-> e] :
     c \in CostPools(TypeNames, {1, 2}, {Str(<<"D">>), Str(<<"P">>)}),
     e \in EventTables(CostHeaders, {TRUE}, CostTotals, CostFlights,
                       0..MaxFlights)}

\* a cost-pool sheet with any of the required columns missing, or with an
\* extra column, over one fixed event sheet
Note == <<"Note">>

SchemaCell(name) ==
  IF name = Activity THEN Str(ActivityName(1))
  ELSE IF name = Type THEN Str(<<"Direct">>)
  ELSE IF name = Total_Cost THEN Num(2)
  ELSE IF name = Driver THEN Str(<<"D">>)
  ELSE Str(<<"memo">>)

RECURSIVE Restrict(_, _)
Restrict(names, keep) ==
  IF names = <<>> THEN <<>>
  ELSE IF Head(names) \in keep THEN <<Head(names)>> \o Restrict(Tail(names), keep)
       ELSE Restrict(Tail(names), keep)

SchemaInputs ==
  {[cost |-> [columns |-> cols,
              rows |-> [i \in 1..n |-> [k \in 1..Len(cols) |-> SchemaCell(cols[k])]]],
    event |-> EventFrame(<<"Flight", " ", "No">>, <<<<"D">>>>, <<TRUE>>,
                         <<DepartureOf(1)>>, <<<<1>>>>, <<Num(1)>>)] :
     cols \in {Restrict(<<Note>> \o CostColumns, keep) :
                 keep \in SUBSET (Range(CostColumns) \cup {Note})},
     n \in 0..1}

\* every raw Departure Time value, on a sheet with one flight
RawTimes ==
  {NaN, Str(<<"n/a">>)}
    \cup {[t |-> "time", hour |-> h] : h \in 0..23}
    \cup {[t |-> "timestr", hour |-> h] : h \in 0..23}

TimeInputs ==
  {[cost |-> CostFrame(1, <<<<"Direct">>>>, <<2>>, <<Str(<<"D">>)>>),
    event |-> EventFrame(Flight, <<<<"D">>>>, <<TRUE>>, <<d>>, <<<<1>>>>, <<Num(1)>>)] :
     d \in RawTimes}

Inputs == NameInputs \cup CostInputs \cup SchemaInputs \cup TimeInputs

(***************************************************************************)
(* The script                                                              *)
(***************************************************************************)
Init ==
  /\ pc = "validation"
  /\ \E in \in Inputs : cost_df = in.cost /\ event_df = in.event
  /\ driver_units = Undefined
  /\ events_clean = Undefined
  /\ costs_df = Undefined
  /\ summary = Undefined
  /\ viz_df = Undefined
  /\ exception = "none"
  /\ displayed = {}

\* a schema check that forgets the Driver column
required_cols_without_driver == {Activity, Type, Total_Cost}

\* lines 45-48
required_cols == {Activity, Type, Total_Cost, Driver}

Validation ==
  /\ pc = "validation"
  /\ IF ~(required_cols \subseteq Range(cost_df.columns))
     THEN pc' = "stopped" /\ exception' = "st.error"
     ELSE pc' = "driver_units" /\ UNCHANGED exception
  /\ UNCHANGED <<cost_df, event_df, driver_units, events_clean, costs_df, summary,
                 viz_df, displayed>>

\* line 53: event_df.iloc[-1]
total_row == event_df.rows[Len(event_df.rows)]

\* line 54: the positions of the columns select_dtypes(include="number") keeps
numeric_cols == {i \in 1..Len(event_df.columns) : event_df.numeric[i]}

\* d[k] = v of a dict kept as a function
DictPut(d, k, v) == [x \in DOMAIN d \cup {k} |-> IF x = k THEN v ELSE d[x]]

\* lines 56-60: the dict comprehension over the first i columns, in column
\* order; a later column with the same trimmed name replaces an earlier one
RECURSIVE DriverUnitsDict(_)
DriverUnitsDict(i) ==
  IF i = 0 THEN <<>>
  ELSE IF i \in numeric_cols /\ ~IsNa(total_row[i])
       THEN DictPut(DriverUnitsDict(i - 1), Strip(event_df.columns[i]), total_row[i].v)
       ELSE DriverUnitsDict(i - 1)

\* lines 53-60
DriverUnits ==
  /\ pc = "driver_units"
  /\ IF Len(event_df.rows) = 0
     THEN pc' = "crashed" /\ exception' = "IndexError" /\ UNCHANGED driver_units
     ELSE /\ driver_units' = DriverUnitsDict(Len(event_df.columns))
          /\ pc' = "rate"
          /\ UNCHANGED exception
  /\ UNCHANGED <<cost_df, event_df, events_clean, costs_df, summary, viz_df, displayed>>

\* a lookup that does not trim the driver name
get_driver_units_untrimmed(driver) ==
  IF IsNa(driver) THEN Zero
  ELSE IF ToStr(driver) \in DOMAIN driver_units
       THEN driver_units[ToStr(driver)]
       ELSE Zero

\* lines 62-65
get_driver_units(driver) ==
  IF IsNa(driver) THEN Zero
  ELSE IF Strip(ToStr(driver)) \in DOMAIN driver_units
       THEN driver_units[Strip(ToStr(driver))]
       ELSE Zero

Driver_Units == <<"Driver_Units">>
RatePerDriverUnit == <<"RatePerDriverUnit">>

\* a rate without the guard against zero driver units
RateOfUnguarded(total_cost, units) == QDiv(total_cost, units)

\* line 69: the lambda applied to one row
RateOf(total_cost, units) == IF units # Zero THEN QDiv(total_cost, units) ELSE Zero

\* lines 67-71; on a cost pool without rows both columns are empty
Rate ==
  /\ pc = "rate"
  /\ LET units == [r \in 1..Len(cost_df.rows) |->
                     NumQ(get_driver_units(At(cost_df, cost_df.rows[r], Driver)))]
         with_units == SetColumn(cost_df, Driver_Units, units)
         rates == [r \in 1..Len(cost_df.rows) |->
                     NumQ(RateOf(At(with_units, with_units.rows[r], Total_Cost).v,
                                 At(with_units, with_units.rows[r], Driver_Units).v))]
     IN IF \E r \in 1..Len(rates) : rates[r].v = Fault
        THEN /\ cost_df' = with_units
             /\ pc' = "crashed"
             /\ exception' = "ZeroDivisionError"
        ELSE /\ cost_df' = SetColumn(with_units, RatePerDriverUnit, rates)
             /\ pc' = "remove_total"
             /\ UNCHANGED exception
  /\ UNCHANGED <<event_df, driver_units, events_clean, costs_df, summary, viz_df, displayed>>

\* line 76: event_df.iloc[:-1]
RemoveTotal ==
  /\ pc = "remove_total"
  /\ events_clean' = [event_df EXCEPT !.rows = SubSeq(event_df.rows, 1, Len(event_df.rows) - 1)]
  /\ pc' = "allocation"
  /\ UNCHANGED <<cost_df, event_df, driver_units, costs_df, summary, viz_df, exception,
                 displayed>>

\* a consumption lookup that matches the column by its trimmed name
FlightGetTrimmed(flight_row, driver) ==
  IF ~IsNa(driver)
       /\ \E i \in 1..Len(events_clean.columns) :
            Strip(events_clean.columns[i]) = Strip(driver.v)
  THEN flight_row[CHOOSE i \in 1..Len(events_clean.columns) :
                    Strip(events_clean.columns[i]) = Strip(driver.v)].v
  ELSE Zero

\* line 89: flight_row.get(act["Driver"], 0)
FlightGet(flight_row, driver) ==
  IF ~IsNa(driver) /\ HasColumn(events_clean, driver.v)
  THEN At(events_clean, flight_row, driver.v).v
  ELSE Zero

\* row_cost[k] = v of a dict kept as a sequence of <<key, value>> pairs
RowPut(d, k, v) ==
  IF \E i \in 1..Len(d) : d[i][1] = k
  THEN [i \in 1..Len(d) |-> IF d[i][1] = k THEN <<k, v>> ELSE d[i]]
  ELSE Append(d, <<k, v>>)

\* lines 87-90: the inner loop over the first n cost-pool rows
RECURSIVE RowCost(_, _)
RowCost(flight_row, n) ==
  IF n = 0 THEN << <<Flight, Str(ToStr(flight_row[1]))>> >>
  ELSE LET act == cost_df.rows[n]
       IN RowPut(RowCost(flight_row, n - 1),
                 At(cost_df, act, Activity).v,
                 NumQ(QMul(FlightGet(flight_row, At(cost_df, act, Driver)),
                           At(cost_df, act, RatePerDriverUnit).v)))

\* lines 83-94: pd.DataFrame(costs_data); no rows give a frame without columns
CostsFrame ==
  LET costs_data == [f \in 1..Len(events_clean.rows) |->
                       RowCost(events_clean.rows[f], Len(cost_df.rows))]
  IN IF costs_data = <<>> THEN [columns |-> <<>>, rows |-> <<>>]
     ELSE [columns |-> [k \in 1..Len(costs_data[1]) |-> costs_data[1][k][1]],
           rows |-> [f \in 1..Len(costs_data) |->
                       [k \in 1..Len(costs_data[f]) |-> costs_data[f][k][2]]]]

\* df[names].sum(axis=1) of the f-th row
RowSum(df, f, names) == SumQ([k \in 1..Len(names) |-> At(df, df.rows[f], names[k]).v])

\* a row total that skips the first activity column with the Flight column
DroppedWithFirstActivity(df, name) == SubSeq(df.columns, 3, Len(df.columns))

\* df.drop(columns=[name]).columns
Dropped(df, name) ==
  LET keep == {i \in 1..Len(df.columns) : df.columns[i] # name}
      F[i \in 0..Len(df.columns)] ==
        IF i = 0 THEN <<>>
        ELSE IF i \in keep THEN Append(F[i - 1], df.columns[i]) ELSE F[i - 1]
  IN F[Len(df.columns)]

\* lines 81-97
CostAllocation ==
  /\ pc = "allocation"
  /\ LET frame == CostsFrame
     IN IF ~HasColumn(frame, Flight)
        THEN /\ costs_df' = frame
             /\ pc' = "crashed"
             /\ exception' = "KeyError"
        ELSE /\ LET acts == Dropped(frame, Flight)
                IN costs_df' =
                     SetColumn(frame, Total_Cost_Per_Flight,
                               [f \in 1..Len(frame.rows) |-> NumQ(RowSum(frame, f, acts))])
             /\ pc' = "summary"
             /\ UNCHANGED exception
  /\ UNCHANGED <<cost_df, event_df, driver_units, events_clean, summary, viz_df, displayed>>

\* Series.unique(): the values in order of first appearance
RECURSIVE Unique(_)
Unique(s) ==
  IF s = <<>> THEN <<>>
  ELSE LET init == Unique(SubSeq(s, 1, Len(s) - 1))
       IN IF s[Len(s)] \in Range(init) THEN init ELSE Append(init, s[Len(s)])

\* a type roll-up that keeps only the first activity of the type
ActsOfTypeFirstOnly(t) ==
  LET first == CHOOSE i \in 1..Len(cost_df.rows) :
                 /\ At(cost_df, cost_df.rows[i], Type) = t
                 /\ \A j \in 1..(i - 1) : At(cost_df, cost_df.rows[j], Type) # t
  IN <<At(cost_df, cost_df.rows[first], Activity).v>>

\* line 106: cost_df.loc[cost_df["Type"] == t, "Activity"]
ActsOfType(t) ==
  LET F[i \in 0..Len(cost_df.rows)] ==
        IF i = 0 THEN <<>>
        ELSE IF At(cost_df, cost_df.rows[i], Type) = t
             THEN Append(F[i - 1], At(cost_df, cost_df.rows[i], Activity).v)
             ELSE F[i - 1]
  IN F[Len(cost_df.rows)]

\* f"{t}_Cost"
TypeColumn(t) == Append(ToStr(t), "_Cost")

\* lines 105-107: the loop over the first n distinct types
RECURSIVE SummaryUpTo(_, _)
SummaryUpTo(types, n) ==
  IF n = 0
  THEN [columns |-> <<Flight>>,
        rows |-> [f \in 1..Len(costs_df.rows) |-> <<At(costs_df, costs_df.rows[f], Flight)>>]]
  ELSE LET acts == ActsOfType(types[n])
       IN SetColumn(SummaryUpTo(types, n - 1), TypeColumn(types[n]),
                    [f \in 1..Len(costs_df.rows) |-> NumQ(RowSum(costs_df, f, acts))])

\* lines 102-109
SummaryByType ==
  /\ pc = "summary"
  /\ LET types == Unique(Column(cost_df, Type))
     IN summary' = SetColumn(SummaryUpTo(types, Len(types)), Total_Cost_Per_Flight,
                             Column(costs_df, Total_Cost_Per_Flight))
  /\ pc' = "time_period"
  /\ UNCHANGED <<cost_df, event_df, driver_units, events_clean, costs_df, viz_df, exception,
                 displayed>>

\* lines 120-123: pd.to_datetime(..., errors="coerce") of one cell
ToDatetime(c) ==
  IF c.t \in {"time", "timestr"} THEN [t |-> "time", hour |-> c.hour] ELSE NaN

\* a classifier whose morning starts after hour 5
get_time_period_late_morning(t) ==
  IF IsNa(t) THEN <<"Unknown">>
  ELSE LET hour == t.hour
       IN IF 5 < hour /\ hour < 12 THEN <<"Morning">>
          ELSE IF 12 <= hour /\ hour < 17 THEN <<"Afternoon">>
          ELSE IF 17 <= hour /\ hour < 21 THEN <<"Evening">>
          ELSE <<"Night">>

\* lines 125-136
get_time_period(t) ==
  IF IsNa(t) THEN <<"Unknown">>
  ELSE LET hour == t.hour
       IN IF 5 <= hour /\ hour < 12 THEN <<"Morning">>
          ELSE IF 12 <= hour /\ hour < 17 THEN <<"Afternoon">>
          ELSE IF 17 <= hour /\ hour < 21 THEN <<"Evening">>
          ELSE <<"Night">>

TimePeriodColumn == <<"Time", " ", "Period">>

\* lines 141-145: the left join on Flight with summary[["Flight", "Total_Cost_Per_Flight"]]
MergeTotals(df) ==
  LET matches(r) == {j \in 1..Len(summary.rows) :
                       At(summary, summary.rows[j], Flight) = At(df, df.rows[r], Flight)}
      joined(r) ==
        IF matches(r) = {} THEN << Append(df.rows[r], NaN) >>
        ELSE LET G[j \in 0..Len(summary.rows)] ==
                   IF j = 0 THEN <<>>
                   ELSE IF j \in matches(r)
                        THEN Append(G[j - 1],
                                    Append(df.rows[r],
                                           At(summary, summary.rows[j], Total_Cost_Per_Flight)))
                        ELSE G[j - 1]
             IN G[Len(summary.rows)]
      H[r \in 0..Len(df.rows)] == IF r = 0 THEN <<>> ELSE H[r - 1] \o joined(r)
  IN [df EXCEPT !.columns = Append(df.columns, Total_Cost_Per_Flight),
                !.rows = H[Len(df.rows)]]

\* lines 114-145
TimePeriod ==
  /\ pc = "time_period"
  /\ LET with_flight == SetColumn(events_clean, Flight,
                                  [r \in 1..Len(events_clean.rows) |->
                                     Str(ToStr(events_clean.rows[r][1]))])
     IN IF ~HasColumn(with_flight, DepartureTime)
        THEN /\ viz_df' = with_flight
             /\ pc' = "crashed"
             /\ exception' = "KeyError"
        ELSE LET parsed == SetColumn(with_flight, DepartureTime,
                                     [r \in 1..Len(with_flight.rows) |->
                                        ToDatetime(At(with_flight, with_flight.rows[r],
                                                      DepartureTime))])
                 periods == SetColumn(parsed, TimePeriodColumn,
                                      [r \in 1..Len(parsed.rows) |->
                                         Str(get_time_period(At(parsed, parsed.rows[r],
                                                                DepartureTime)))])
             IN /\ viz_df' = MergeTotals(periods)
                /\ pc' = "tables"
                /\ UNCHANGED exception
  /\ UNCHANGED <<cost_df, event_df, driver_units, events_clean, costs_df, summary, displayed>>

\* lines 191-201: the three tables shown to the user
TableSection ==
  /\ pc = "tables"
  /\ displayed' = {"Costpools", "Cost_Allocation", "Summary"}
  /\ pc' = "done"
  /\ UNCHANGED <<cost_df, event_df, driver_units, events_clean, costs_df, summary, viz_df,
                 exception>>

Next ==
  \/ Validation
  \/ DriverUnits
  \/ Rate
  \/ RemoveTotal
  \/ CostAllocation
  \/ SummaryByType
  \/ TimePeriod
  \/ TableSection

Spec == Init /\ [][Next]_vars

(***************************************************************************)
(* The claims.  Their vocabulary is defined from the two input sheets and  *)
(* from the columns the script writes, not from the operators above.       *)
(***************************************************************************)
IsDefined(df) == "undefined" \notin DOMAIN df

\* the schema check has passed and the script has gone on
Rated == pc \in {"remove_total", "allocation", "summary", "time_period", "tables", "done"}
           \/ (pc = "crashed" /\ IsDefined(costs_df))

Allocated == pc \in {"summary", "time_period", "tables", "done"}

Summarised == pc \in {"time_period", "tables", "done"}

Classified == pc \in {"tables", "done"}

\* the run is over: shown, stopped by the schema check, or ended by an exception
Ended == pc \in {"done", "stopped", "crashed"}

Index(names, name) == CHOOSE i \in 1..Len(names) : names[i] = name

\* the cell of cost-pool row a in the column `name`
Pool(a, name) == cost_df.rows[a][Index(cost_df.columns, name)]

\* the name with the whitespace before its first and after its last
\* non-blank atom removed
Trimmed(nm) ==
  LET solid == {i \in 1..Len(nm) : nm[i] # " "}
  IN IF solid = {} THEN <<>>
     ELSE SubSeq(nm, CHOOSE i \in solid : \A j \in solid : i <= j,
                     CHOOSE i \in solid : \A j \in solid : i >= j)

\* the positions of the event columns named exactly nm
Named(nm) == {i \in 1..Len(event_df.columns) : event_df.columns[i] = nm}

\* F's value in the column named by activity a's Driver, or 0 without one
Consumption(f, a) ==
  LET d == Pool(a, Driver)
  IN IF d.t = "str" /\ Named(d.v) # {}
     THEN event_df.rows[f][CHOOSE i \in Named(d.v) : TRUE].v
     ELSE Zero

\* allocated_cost(F, A)
AllocatedCost(f, a) == QMul(Consumption(f, a), Pool(a, RatePerDriverUnit).v)

\* the AllocationMatrix cell (F, A)
Cell(f, a) == costs_df.rows[f][Index(costs_df.columns, Pool(a, Activity).v)].v

\* C1: for every flight of the AllocationMatrix, Total_Cost_Per_Flight is the
\* sum over all cost-pool activities of consumption x RatePerDriverUnit,
\* consumption being 0 when the flight has no column named by the Driver.
C1_TotalIsSumOfAllocatedCosts ==
  Allocated =>
    \A f \in 1..Len(costs_df.rows) :
      costs_df.rows[f][Index(costs_df.columns, Total_Cost_Per_Flight)].v
        = SumQ([a \in 1..Len(cost_df.rows) |-> AllocatedCost(f, a)])

C1_Witness ==
  /\ Allocated
  /\ Len(cost_df.rows) >= 2
  /\ \E f \in 1..Len(costs_df.rows) :
       /\ AllocatedCost(f, 1) # Zero
       /\ AllocatedCost(f, 2) # Zero
       /\ AllocatedCost(f, 1) # AllocatedCost(f, 2)
       /\ costs_df.rows[f][Index(costs_df.columns, Total_Cost_Per_Flight)].v
            = QAdd(AllocatedCost(f, 1), AllocatedCost(f, 2))

\* the Type columns of the Summary
TypeColumns ==
  {i \in 1..Len(summary.columns) : summary.columns[i] \notin {Flight, Total_Cost_Per_Flight}}

TypesOfPool == {Pool(a, Type) : a \in 1..Len(cost_df.rows)}

RECURSIVE SumOver(_, _)
SumOver(S, g) ==
  IF S = {} THEN Zero
  ELSE LET x == CHOOSE y \in S : TRUE IN QAdd(g[x], SumOver(S \ {x}, g))

\* C2: in every Summary row the Type columns add up to Total_Cost_Per_Flight;
\* there is one <T>_Cost column per distinct Type of the cost pool, and it
\* holds the sum of the flight's cells of the activities of that Type.
C2_TypeColumnsSumToTotal ==
  Summarised =>
    /\ Cardinality(TypeColumns) = Cardinality(TypesOfPool)
    /\ \A f \in 1..Len(summary.rows) :
         /\ LET cell(i) == summary.rows[f][i].v
            IN SumOver(TypeColumns, [i \in TypeColumns |-> cell(i)])
                 = summary.rows[f][Index(summary.columns, Total_Cost_Per_Flight)].v
         /\ \A ty \in TypesOfPool :
              LET ofType == {a \in 1..Len(cost_df.rows) : Pool(a, Type) = ty}
                  cell(a) == Cell(f, a)
              IN /\ Append(ty.v, "_Cost") \in Range(summary.columns)
                 /\ summary.rows[f][Index(summary.columns, Append(ty.v, "_Cost"))].v
                      = SumOver(ofType, [a \in ofType |-> cell(a)])

C2_Witness ==
  /\ Summarised
  /\ Cardinality(TypeColumns) = 1
  /\ Len(cost_df.rows) >= 2
  /\ \E f \in 1..Len(summary.rows) :
       /\ Cell(f, 1) # Zero
       /\ Cell(f, 2) # Zero
       /\ \E i \in TypeColumns : summary.rows[f][i].v = QAdd(Cell(f, 1), Cell(f, 2))

\* C3: RatePerDriverUnit x Driver_Units = Total_Cost when Driver_Units is not
\* 0, RatePerDriverUnit = 0 when Driver_Units is 0, and the rate step never
\* ends in an arithmetic fault or an undefined rate.
C3_RateIsCostPerUnit ==
  /\ exception # "ZeroDivisionError"
  /\ Rated =>
       \A a \in 1..Len(cost_df.rows) :
         LET units == Pool(a, Driver_Units).v
             cost == Pool(a, Total_Cost).v
             rate == Pool(a, RatePerDriverUnit).v
         IN /\ rate[2] > 0
            /\ units[1] # 0 => rate[1] * units[1] * cost[2] = cost[1] * rate[2] * units[2]
            /\ units[1] = 0 => rate[1] = 0

C3_Witness ==
  /\ Rated
  /\ \E a, b \in 1..Len(cost_df.rows) :
       /\ Pool(a, Driver_Units).v = <<2, 1>>
       /\ Pool(a, Total_Cost).v = <<1, 1>>
       /\ Pool(a, RatePerDriverUnit).v = <<1, 2>>
       /\ Pool(b, Driver_Units).v = <<1, 1>>
       /\ Pool(b, RatePerDriverUnit).v = <<2, 1>>

ZeroUnits_Witness ==
  /\ Rated
  /\ \E a \in 1..Len(cost_df.rows) :
       /\ Pool(a, Driver_Units).v = Zero
       /\ Pool(a, Total_Cost).v # Zero
       /\ Pool(a, RatePerDriverUnit).v = Zero

\* C4: every AllocationMatrix cell (F, A) is F[A.Driver] x A.RatePerDriverUnit
\* when the event table has a column named A.Driver and 0 when it has none;
\* a missing column fails no flight row; and with 0 driver units for A every
\* flight's cost for A is 0 whatever the flight consumed.
C4_CellIsConsumptionTimesRate ==
  /\ (pc = "crashed" /\ IsDefined(costs_df) /\ ~IsDefined(summary))
       => Len(event_df.rows) = 1
  /\ Allocated =>
       \A f \in 1..Len(costs_df.rows) : \A a \in 1..Len(cost_df.rows) :
         /\ Cell(f, a) = AllocatedCost(f, a)
         /\ (Pool(a, Driver).t = "nan" \/ Named(Pool(a, Driver).v) = {}) => Cell(f, a) = Zero
         /\ Pool(a, Driver_Units).v = Zero => Cell(f, a) = Zero

C4_Witness ==
  /\ Allocated
  /\ \E f \in 1..Len(costs_df.rows) : \E a, b \in 1..Len(cost_df.rows) :
       /\ Pool(a, Driver).t = "str"
       /\ Named(Pool(a, Driver).v) = {}
       /\ Pool(a, RatePerDriverUnit).v # Zero
       /\ Cell(f, a) = Zero
       /\ Pool(b, Driver).t = "str"
       /\ Named(Pool(b, Driver).v) # {}
       /\ Cell(f, b) # Zero

ZeroVolume_Witness ==
  /\ Allocated
  /\ \E f \in 1..Len(costs_df.rows) : \E a \in 1..Len(cost_df.rows) :
       /\ Pool(a, Driver_Units).v = Zero
       /\ Consumption(f, a) # Zero
       /\ Cell(f, a) = Zero

RequiredPresent ==
  \A name \in {Activity, Type, Total_Cost, Driver} : name \in Range(cost_df.columns)

\* C5: a cost pool lacking any of Activity, Type, Total_Cost, Driver ends the
\* run in the schema error before any lookup, rate, allocation or summary,
\* with no table shown and nothing left to run; with all four present
\* (extra columns allowed) the schema error never occurs.
C5_SchemaErrorBeforeAnyComputation ==
  /\ pc # "validation" => (pc = "stopped" <=> ~RequiredPresent)
  /\ exception = "st.error" <=> pc = "stopped"
  /\ pc = "stopped" =>
       /\ driver_units = Undefined
       /\ Driver_Units \notin Range(cost_df.columns)
       /\ RatePerDriverUnit \notin Range(cost_df.columns)
       /\ ~IsDefined(events_clean)
       /\ ~IsDefined(costs_df)
       /\ ~IsDefined(summary)
       /\ ~IsDefined(viz_df)
       /\ displayed = {}
       /\ ~ENABLED Next

C5_Witness ==
  /\ pc = "stopped"
  /\ Note \in Range(cost_df.columns)
  /\ Driver \notin Range(cost_df.columns)
  /\ {Activity, Type, Total_Cost} \subseteq Range(cost_df.columns)
  /\ Len(cost_df.rows) = 1

ExtraColumn_Witness ==
  pc = "done" /\ Note \in Range(cost_df.columns)

\* C6: every input whose cost pool has the four required columns runs to
\* completion with the four output tables produced: RatedCostPool,
\* AllocationMatrix, Summary and the per-flight TimePeriod.
C6_EveryValidInputCompletes ==
  (RequiredPresent /\ Ended) =>
    /\ pc = "done"
    /\ exception = "none"
    /\ RatePerDriverUnit \in Range(cost_df.columns)
    /\ IsDefined(costs_df)
    /\ IsDefined(summary)
    /\ IsDefined(viz_df)

\* the numeric event columns whose trimmed name is the trimmed driver name
\* and whose Totals value is not missing
Volumes(d) ==
  {i \in 1..Len(event_df.columns) :
     /\ event_df.numeric[i]
     /\ Trimmed(event_df.columns[i]) = Trimmed(d.v)
     /\ event_df.rows[Len(event_df.rows)][i].t = "num"}

\* C7: Driver_Units is the Totals value of the numeric event column whose
\* trimmed name is the trimmed driver name, and 0 when the driver is missing
\* or blank, when no numeric column has that trimmed name, or when the Totals
\* value of that column is missing.
C7_DriverUnitsLookup ==
  Rated =>
    \A a \in 1..Len(cost_df.rows) :
      LET d == Pool(a, Driver)
          units == Pool(a, Driver_Units).v
          totals == event_df.rows[Len(event_df.rows)]
      IN /\ d.t = "nan" => units = Zero
         /\ (d.t = "str" /\ Trimmed(d.v) = <<>>) => units = Zero
         /\ (d.t = "str" /\ Volumes(d) = {}) => units = Zero
         /\ (d.t = "str" /\ Volumes(d) # {}) => \E i \in Volumes(d) : units = totals[i].v
         /\ \A i \in 1..Len(event_df.columns) :
              (/\ d.t = "str"
               /\ \A j \in 1..Len(event_df.columns) :
                    (event_df.numeric[j]
                       /\ Trimmed(event_df.columns[j]) = Trimmed(d.v)) <=> j = i)
                => units = IF totals[i].t = "num" THEN totals[i].v ELSE Zero

C7_Witness ==
  /\ Rated
  /\ \E a \in 1..Len(cost_df.rows) :
       /\ Pool(a, Driver).t = "str"
       /\ Pool(a, Driver).v = <<" ", "D">>
       /\ Named(<<"D", " ">>) # {}
       /\ Named(<<"D">>) = {}
       /\ Pool(a, Driver_Units).v = <<MaxFlights, 1>>

\* the departure timestamp's hour of the r-th flight, or -1 when the raw
\* value is missing or does not parse
HourOf(r) ==
  LET raw == event_df.rows[r][Index(event_df.columns, DepartureTime)]
  IN IF raw.t \in {"time", "timestr"} THEN raw.hour ELSE -1

PeriodOf(r) == viz_df.rows[r][Index(viz_df.columns, TimePeriodColumn)].v

\* C8: a missing or unparseable timestamp maps to Unknown, and an hour h maps
\* to Morning iff 5 <= h < 12, Afternoon iff 12 <= h < 17, Evening iff
\* 17 <= h < 21, Night otherwise, never to Unknown.
C8_TimePeriodBuckets ==
  Classified =>
    /\ Len(viz_df.rows) = Len(event_df.rows) - 1
    /\ \A r \in 1..Len(viz_df.rows) :
         LET h == HourOf(r)
         IN /\ PeriodOf(r) \in {<<"Morning">>, <<"Afternoon">>, <<"Evening">>, <<"Night">>,
                                <<"Unknown">>}
            /\ PeriodOf(r) = <<"Unknown">> <=> h = -1
            /\ PeriodOf(r) = <<"Morning">> <=> h \in 5..11
            /\ PeriodOf(r) = <<"Afternoon">> <=> h \in 12..16
            /\ PeriodOf(r) = <<"Evening">> <=> h \in 17..20
            /\ PeriodOf(r) = <<"Night">> <=> h \in (21..23) \cup (0..4)

C8_Witness ==
  /\ Classified
  /\ \E r \in 1..Len(viz_df.rows) :
       /\ event_df.rows[r][Index(event_df.columns, DepartureTime)]
            = [t |-> "timestr", hour |-> 5]
       /\ PeriodOf(r) = <<"Morning">>

\* the activity names of the cost pool, in row order
ActivityOrder == [a \in 1..Len(cost_df.rows) |-> Pool(a, Activity).v]

\* C9: for an event table of n rows the AllocationMatrix and the Summary each
\* have n-1 rows, the i-th being the i-th event row's flight, and the
\* AllocationMatrix columns are Flight, the activities in cost-pool order,
\* Total_Cost_Per_Flight.
C9_RowsAndColumnsFollowInput ==
  (RequiredPresent /\ Ended) =>
    /\ IsDefined(costs_df)
    /\ IsDefined(summary)
    /\ Len(costs_df.rows) = Len(event_df.rows) - 1
    /\ Len(summary.rows) = Len(event_df.rows) - 1
    /\ costs_df.columns = <<Flight>> \o ActivityOrder \o <<Total_Cost_Per_Flight>>
    /\ \A i \in 1..Len(costs_df.rows) :
         /\ costs_df.rows[i][1] = Str(ToStr(event_df.rows[i][1]))
         /\ summary.rows[i][1] = Str(ToStr(event_df.rows[i][1]))

\* what holds of C9 on the runs that reach the tables
RowsAndColumnsWhenProduced ==
  /\ Allocated =>
       /\ Len(costs_df.rows) = Len(event_df.rows) - 1
       /\ costs_df.columns = <<Flight>> \o ActivityOrder \o <<Total_Cost_Per_Flight>>
       /\ \A i \in 1..Len(costs_df.rows) :
            costs_df.rows[i][1] = Str(ToStr(event_df.rows[i][1]))
  /\ Summarised =>
       /\ Len(summary.rows) = Len(event_df.rows) - 1
       /\ \A i \in 1..Len(summary.rows) :
            summary.rows[i][1] = Str(ToStr(event_df.rows[i][1]))

\* the event column that gave activity a its Driver_Units
VolumeColumn(a) == CHOOSE i \in Volumes(Pool(a, Driver)) : \A j \in Volumes(Pool(a, Driver)) : i >= j

\* C10: for every activity with Driver_Units > 0 whose Totals value is the
\* sum of the flight rows' values in that driver column, the AllocationMatrix
\* cells of the activity add up to its Total_Cost.
C10_CostConservation ==
  Allocated =>
    \A a \in 1..Len(cost_df.rows) :
      (/\ Pool(a, Driver_Units).v[1] > 0
       /\ LET used(f) == event_df.rows[f][VolumeColumn(a)].v
          IN SumOver(1..Len(costs_df.rows), [f \in 1..Len(costs_df.rows) |-> used(f)]) = Pool(a, Driver_Units).v)
        => LET cell(f) == Cell(f, a)
           IN SumOver(1..Len(costs_df.rows), [f \in 1..Len(costs_df.rows) |-> cell(f)]) = Pool(a, Total_Cost).v

\* what holds of C10 when the Driver is written exactly as the column header
ConservationOnExactNames ==
  Allocated =>
    \A a \in 1..Len(cost_df.rows) :
      (/\ Pool(a, Driver_Units).v[1] > 0
       /\ event_df.columns[VolumeColumn(a)] = Pool(a, Driver).v
       /\ LET used(f) == event_df.rows[f][VolumeColumn(a)].v
          IN SumOver(1..Len(costs_df.rows), [f \in 1..Len(costs_df.rows) |-> used(f)]) = Pool(a, Driver_Units).v)
        => LET cell(f) == Cell(f, a)
           IN SumOver(1..Len(costs_df.rows), [f \in 1..Len(costs_df.rows) |-> cell(f)]) = Pool(a, Total_Cost).v

====
